---- MODULE Spec2Model ----
(***************************************************************************)
(* Model of src/src/ctypes/ldouble_stubs.c: the boxed long double and long *)
(* double complex custom values of ocaml-ctypes, with their compare, hash, *)
(* serialize and deserialize hooks.                                        *)
(*                                                                         *)
(* A long double is a miniature binary floating-point number with a sign   *)
(* bit s, a biased exponent field e in 0..MaxExp and a two-bit fraction m. *)
(* e = 0 holds zero and the subnormals, e = MaxExp holds infinity (m = 0)  *)
(* and the NaNs (m # 0, the high fraction bit being the quiet bit), and    *)
(* the exponents in between hold the normal numbers.  On the pair-of-      *)
(* doubles platform (LDBL_MANT_DIG = 106) the value is a high double       *)
(* (s, e, m) followed by a low double, of which the signed zeros are       *)
(* modelled: lo is the sign bit of the low double.                         *)
(***************************************************************************)
EXTENDS Integers, Sequences, FiniteSets

\* Largest value of the exponent field (the infinity / NaN exponent).
MaxExp == 2

VARIABLES
  mant_dig,                \* LDBL_MANT_DIG of the build
  big_endian,              \* ARCH_BIG_ENDIAN of the build
  pc,                      \* "load" before ldouble_init has run, then "ready"
  nan_,                    \* static long double nan_
  registered,              \* custom operations registered with the runtime
  caml_compare_unordered,  \* the runtime's unordered flag
  v1, v2,                  \* two ldouble boxes: the newest, and one kept
  c1, c2,                  \* two ldouble_complex boxes (<<>>: no box yet)
  cmp_out,                 \* result of the compare hook on the two boxes
  hash_out,                \* results of the hash hook on box 1 and on box 2
  wire,                    \* the bytes written by the serialize hook
  ser_out,                 \* the sizes that hook declared
  des_out,                 \* outcome of the deserialize hook on those bytes
  dst                      \* destination block of the deserialize hook

vars == <<mant_dig, big_endian, pc, nan_, registered, caml_compare_unordered,
          v1, v2, c1, c2, cmp_out, hash_out, wire, ser_out, des_out, dst>>

(***************************************************************************)
(* The platforms: 8-byte double (arm, msvc), intel 80-bit extended, the    *)
(* powerpc pair of doubles, IEEE quad on either byte order, and a          *)
(* mantissa width the stubs do not know.                                   *)
(***************************************************************************)
UnknownMantDig == 237

Platforms ==
  { [md |-> 53,  be |-> FALSE],
    [md |-> 64,  be |-> FALSE],
    [md |-> 106, be |-> TRUE],
    [md |-> 113, be |-> FALSE],
    [md |-> 113, be |-> TRUE],
    [md |-> UnknownMantDig, be |-> FALSE] }

\* #define LDOUBLE_VALUE_BYTES; sizeof(long double) stands for the fallback.
LDOUBLE_STORAGE_BYTES ==
  CASE mant_dig = 53  -> 8
    [] mant_dig = 64  -> 16
    [] mant_dig = 106 -> 16
    [] mant_dig = 113 -> 16
    [] OTHER -> 32

LDOUBLE_VALUE_BYTES ==
  CASE mant_dig = 53  -> 8
    [] mant_dig = 64  -> 10
    [] mant_dig = 106 -> 16
    [] mant_dig = 113 -> 16
    [] OTHER -> LDOUBLE_STORAGE_BYTES

\* sizeof(double)
SizeofDouble == 8

(***************************************************************************)
(* long double values and their IEEE classes                               *)
(***************************************************************************)
LoSigns == IF mant_dig = 106 THEN {0, 1} ELSE {0}

LDVals == [s : {0, 1}, e : 0..MaxExp, m : 0..3, lo : LoSigns]

LD(s, e, m) == [s |-> s, e |-> e, m |-> m, lo |-> 0]

PosZero == LD(0, 0, 0)
NegZero == LD(1, 0, 0)
One     == LD(0, 1, 0)
PosInf  == LD(0, MaxExp, 0)
NegInf  == LD(1, MaxExp, 0)
LdblMax == LD(0, MaxExp - 1, 3)

\* nanl(""): the default quiet NaN, positive, empty payload.
nanl == LD(0, MaxExp, 2)

fpclassify(x) ==
  CASE x.e = 0 /\ x.m = 0      -> "FP_ZERO"
    [] x.e = 0                 -> "FP_SUBNORMAL"
    [] x.e = MaxExp /\ x.m = 0 -> "FP_INFINITE"
    [] x.e = MaxExp            -> "FP_NAN"
    [] OTHER                   -> "FP_NORMAL"

IsNaN(x) == fpclassify(x) = "FP_NAN"

\* The number a non-NaN value stands for, on a scale that keeps the order.
Num(x) == IF x.s = 1 THEN 0 - (x.e * 4 + x.m) ELSE x.e * 4 + x.m

FLt(x, y) == ~IsNaN(x) /\ ~IsNaN(y) /\ Num(x) < Num(y)
FGt(x, y) == ~IsNaN(x) /\ ~IsNaN(y) /\ Num(x) > Num(y)
FNe(x, y) == IsNaN(x) \/ IsNaN(y) \/ Num(x) # Num(y)
FEq(x, y) == ~FNe(x, y)

norm(x) ==
  CASE fpclassify(x) = "FP_ZERO" -> PosZero
    [] fpclassify(x) = "FP_NAN"  -> nan_
    [] OTHER                     -> x

\* ldouble_cmp with the two NaN returns exchanged: a NaN sorts above.
ldouble_cmp_nan_above(u1, u2) ==
  IF FLt(u1, u2) THEN [res |-> -1, unordered |-> FALSE]
  ELSE IF FGt(u1, u2) THEN [res |-> 1, unordered |-> FALSE]
  ELSE IF FNe(u1, u2) THEN
    IF FEq(u1, u1) THEN [res |-> -1, unordered |-> TRUE]
    ELSE IF FEq(u2, u2) THEN [res |-> 1, unordered |-> TRUE]
    ELSE [res |-> 0, unordered |-> TRUE]
  ELSE [res |-> 0, unordered |-> FALSE]

\* ldouble_cmp without the returns for a single NaN: unordered is EQUAL.
ldouble_cmp_unordered_equal(u1, u2) ==
  IF FLt(u1, u2) THEN [res |-> -1, unordered |-> FALSE]
  ELSE IF FGt(u1, u2) THEN [res |-> 1, unordered |-> FALSE]
  ELSE IF FNe(u1, u2) THEN [res |-> 0, unordered |-> TRUE]
  ELSE [res |-> 0, unordered |-> FALSE]

\* ldouble_cmp: the result and whether caml_compare_unordered was set.
ldouble_cmp(u1, u2) ==
  IF FLt(u1, u2) THEN [res |-> -1, unordered |-> FALSE]
  ELSE IF FGt(u1, u2) THEN [res |-> 1, unordered |-> FALSE]
  ELSE IF FNe(u1, u2) THEN
    IF FEq(u1, u1) THEN [res |-> 1, unordered |-> TRUE]
    ELSE IF FEq(u2, u2) THEN [res |-> -1, unordered |-> TRUE]
    ELSE [res |-> 0, unordered |-> TRUE]
  ELSE [res |-> 0, unordered |-> FALSE]

(***************************************************************************)
(* The storage of a long double as 32-bit words a[0], a[1], ... (the union *)
(* of ldouble_mix_hash, the unsigned char *p of the codec).  SE is the     *)
(* sign and exponent word, the fraction is split into a high and a low     *)
(* word.  pad is what the six padding bytes of the intel format hold.      *)
(***************************************************************************)
SE(x) == x.s * 8 + x.e

Reverse(w) == [i \in 1..Len(w) |-> w[Len(w) + 1 - i]]

\* The words from the most significant to the least significant.
QuadWords(x) == <<SE(x), x.m \div 2, x.m % 2, 0>>

\* Two doubles, each a high word and a low word; the low double is +0 or -0.
PairWords(x) == <<SE(x), x.m, x.lo * 8, 0>>

SwapPairs(w) == <<w[2], w[1], w[4], w[3]>>

\* The explicit integer bit of the intel format.
IntBit(x) == IF x.e = 0 THEN 0 ELSE 1

Mem(x, pad) ==
  CASE mant_dig = 113 -> IF big_endian THEN QuadWords(x) ELSE Reverse(QuadWords(x))
    [] mant_dig = 106 -> IF big_endian THEN PairWords(x) ELSE SwapPairs(PairWords(x))
    [] mant_dig = 64  -> <<x.m % 2, (x.m \div 2) + 2 * IntBit(x), SE(x) + 65536 * pad>>
    [] OTHER          -> <<>>

\* The long double that storage words hold.
OfSE(se, m, lo) == [s |-> se \div 8, e |-> se % 8, m |-> m, lo |-> lo]

UnQuad(w) == OfSE(w[1], w[2] * 2 + w[3], 0)

UnPair(w) == OfSE(w[1], w[2], w[3] \div 8)

UnMem(a) ==
  CASE mant_dig = 113 -> IF big_endian THEN UnQuad(a) ELSE UnQuad(Reverse(a))
    [] mant_dig = 106 -> IF big_endian THEN UnPair(a) ELSE UnPair(SwapPairs(a))
    [] mant_dig = 64  -> OfSE(a[3] % 65536, (a[2] % 2) * 2 + a[1], 0)
    [] OTHER          -> PosZero

(***************************************************************************)
(* (double) x and (long double) d.  With LDBL_MANT_DIG = 53 long double is *)
(* double and the casts change nothing.  Elsewhere a double has half the   *)
(* fraction: the cast rounds to nearest, ties to even, overflowing to      *)
(* infinity, and keeps a NaN a NaN.                                        *)
(***************************************************************************)
Dbl(s, e, m) == [s |-> s, e |-> e, m |-> m]

RoundKey(k) == (k + ((k \div 2) % 2)) \div 2

Narrow(x) ==
  IF mant_dig = 53 THEN Dbl(x.s, x.e, x.m)
  ELSE CASE fpclassify(x) = "FP_NAN"      -> Dbl(x.s, MaxExp, 1)
         [] fpclassify(x) = "FP_INFINITE" -> Dbl(x.s, MaxExp, 0)
         [] OTHER ->
              LET kd == RoundKey(x.e * 4 + x.m)
              IN  IF kd \div 2 >= MaxExp THEN Dbl(x.s, MaxExp, 0)
                  ELSE Dbl(x.s, kd \div 2, kd % 2)

Widen(d) ==
  IF mant_dig = 53 THEN LD(d.s, d.e, d.m) ELSE LD(d.s, d.e, d.m * 2)

(***************************************************************************)
(* Hashing.  The runtime's 32-bit accumulator is modelled by the words     *)
(* mixed into it, in order: a mix that never collides.                     *)
(***************************************************************************)
caml_hash_mix_uint32(h, d) == Append(h, d)

\* caml_hash_mix_double normalizes NaNs and -0, then mixes the low and the
\* high word of the double.
caml_hash_mix_double(hash, d) ==
  LET n == CASE d.e = MaxExp /\ d.m # 0      -> Dbl(0, MaxExp, 1)
             [] d.s = 1 /\ d.e = 0 /\ d.m = 0 -> Dbl(0, 0, 0)
             [] OTHER                         -> d
  IN  caml_hash_mix_uint32(caml_hash_mix_uint32(hash, n.m), n.s * 8 + n.e)

Mix3(h, x, y, z) ==
  caml_hash_mix_uint32(caml_hash_mix_uint32(caml_hash_mix_uint32(h, x), y), z)

ldouble_mix_hash(hash, d, pad) ==
  LET a == Mem(norm(d), pad)
  IN  IF LDOUBLE_VALUE_BYTES = 16 THEN
        IF big_endian
        THEN caml_hash_mix_uint32(Mix3(hash, a[1], a[2], a[3]), a[4])
        ELSE caml_hash_mix_uint32(Mix3(hash, a[2], a[1], a[4]), a[3])
      ELSE IF LDOUBLE_VALUE_BYTES = 10 THEN
        Mix3(hash, a[1], a[2], a[3] % 65536)
      ELSE caml_hash_mix_double(hash, Narrow(d))

(***************************************************************************)
(* The wire.  What the runtime's serialize primitives write is a sequence  *)
(* of items, each of n bytes holding the data d in big-endian order:       *)
(* caml_serialize_block_8 and _2 reverse the bytes of an item on a         *)
(* little-endian machine, caml_deserialize_block_8 and _2 reverse them     *)
(* back.                                                                   *)
(***************************************************************************)
caml_serialize_int_1(i) == [n |-> 1, d |-> <<i % 256>>]

\* The i-th 8-byte item of the storage words a.
caml_serialize_block_8(a, i) ==
  [n |-> 8, d |-> IF big_endian THEN <<a[2 * i - 1], a[2 * i]>>
                                ELSE <<a[2 * i], a[2 * i - 1]>>]

\* The 2-byte item at byte offset 8 of the storage words a.
caml_serialize_block_2(a) ==
  [n |-> 2, d |-> <<IF big_endian THEN a[3] \div 65536 ELSE a[3] % 65536>>]

caml_serialize_float_8(d) == [n |-> 8, d |-> <<d.s * 8 + d.e, d.m>>]

caml_serialize_float_4(d) == [n |-> 4, d |-> <<(d.s * 8 + d.e) * 4 + d.m>>]

caml_deserialize_block_8(item) ==
  IF big_endian THEN <<item.d[1], item.d[2]>> ELSE <<item.d[2], item.d[1]>>

caml_deserialize_float_8(item) == Dbl(item.d[1] \div 8, item.d[1] % 8, item.d[2])

caml_deserialize_float_4(item) ==
  Dbl(item.d[1] \div 32, (item.d[1] \div 4) % 8, item.d[1] % 4)

RECURSIVE Bytes(_)
Bytes(w) == IF w = <<>> THEN 0 ELSE Head(w).n + Bytes(Tail(w))

\* ldouble_serialize_data returning the storage size for the intel format.
ldouble_serialize_data_storage_size(q) ==
  LET p == Mem(q, 0)
  IN  IF LDOUBLE_VALUE_BYTES = 16 THEN
        [out |-> <<caml_serialize_block_8(p, 1), caml_serialize_block_8(p, 2)>>,
         size |-> 16]
      ELSE IF LDOUBLE_VALUE_BYTES = 10 THEN
        [out |-> <<caml_serialize_block_8(p, 1), caml_serialize_block_2(p)>>,
         size |-> LDOUBLE_STORAGE_BYTES]
      ELSE
        LET d == Narrow(q)
        IN  [out |-> IF SizeofDouble = 4 THEN <<caml_serialize_float_4(d)>>
                                         ELSE <<caml_serialize_float_8(d)>>,
             size |-> SizeofDouble]

\* ldouble_serialize_data: the items written and the size returned.
ldouble_serialize_data(q) ==
  LET p == Mem(q, 0)
  IN  IF LDOUBLE_VALUE_BYTES = 16 THEN
        [out |-> <<caml_serialize_block_8(p, 1), caml_serialize_block_8(p, 2)>>,
         size |-> 16]
      ELSE IF LDOUBLE_VALUE_BYTES = 10 THEN
        [out |-> <<caml_serialize_block_8(p, 1), caml_serialize_block_2(p)>>,
         size |-> 10]
      ELSE
        LET d == Narrow(q)
        IN  [out |-> IF SizeofDouble = 4 THEN <<caml_serialize_float_4(d)>>
                                         ELSE <<caml_serialize_float_8(d)>>,
             size |-> SizeofDouble]

ldouble_custom_val(V) == V[1]

\* ldouble_serialize without the call of norm.
ldouble_serialize_raw(v) ==
  LET p == ldouble_custom_val(v)
      r == ldouble_serialize_data(p)
  IN  [wire     |-> <<caml_serialize_int_1(mant_dig)>> \o r.out,
       wsize_32 |-> 1 + r.size,
       wsize_64 |-> 1 + r.size]

ldouble_serialize(v) ==
  LET p == norm(ldouble_custom_val(v))
      r == ldouble_serialize_data(p)
  IN  [wire     |-> <<caml_serialize_int_1(mant_dig)>> \o r.out,
       wsize_32 |-> 1 + r.size,
       wsize_64 |-> 1 + r.size]

\* ldouble_deserialize_data reading the items s: the long double stored, the
\* size returned, the bytes read and the items left.  pad is what the padding
\* bytes of the destination held.
ldouble_deserialize_data(s, pad) ==
  IF LDOUBLE_VALUE_BYTES = 16 THEN
    [q    |-> UnMem(caml_deserialize_block_8(s[1]) \o caml_deserialize_block_8(s[2])),
     size |-> 16, read |-> s[1].n + s[2].n, rest |-> SubSeq(s, 3, Len(s))]
  ELSE IF LDOUBLE_VALUE_BYTES = 10 THEN
    [q    |-> UnMem(caml_deserialize_block_8(s[1]) \o
                    <<IF big_endian THEN s[2].d[1] * 65536 + pad
                                    ELSE s[2].d[1] + 65536 * pad>>),
     size |-> 10, read |-> s[1].n + s[2].n, rest |-> SubSeq(s, 3, Len(s))]
  ELSE
    [q    |-> Widen(IF SizeofDouble = 4 THEN caml_deserialize_float_4(s[1])
                                        ELSE caml_deserialize_float_8(s[1])),
     size |-> SizeofDouble, read |-> s[1].n, rest |-> Tail(s)]

\* ldouble_deserialize without the check of the tag.
ldouble_deserialize_unchecked(s, d, pad) ==
  LET r == ldouble_deserialize_data(Tail(s), pad)
  IN  [err |-> FALSE, d |-> <<r.q>>, ret |-> 1 + r.size, read |-> s[1].n + r.read]

\* ldouble_deserialize from the items s into a block holding d: whether
\* caml_deserialize_error was raised, the block afterwards, the size returned
\* and the bytes read from s.
ldouble_deserialize(s, d, pad) ==
  IF s[1].d[1] # mant_dig
  THEN [err |-> TRUE, d |-> d, ret |-> 0, read |-> s[1].n]
  ELSE LET r == ldouble_deserialize_data(Tail(s), pad)
       IN  [err |-> FALSE, d |-> <<r.q>>, ret |-> 1 + r.size, read |-> s[1].n + r.read]

(***************************************************************************)
(* long double complex: a pair of long doubles stored contiguously.        *)
(***************************************************************************)
ldouble_complex_custom_val(V) == [re |-> V[1], im |-> V[2]]

creall(c) == c.re
cimagl(c) == c.im

\* A real converted to a complex type: the imaginary part is +0.
ToComplex(x) == [re |-> x, im |-> PosZero]

\* An arithmetic result that is a NaN is quiet.
Quiet(x) == [x EXCEPT !.m = IF x.m < 2 THEN x.m + 2 ELSE x.m]

\* x * 0.0.  Infinity times zero is the default NaN, of the sign dn that the
\* floating-point unit gives it.
FMulZero(x, dn) ==
  CASE fpclassify(x) = "FP_NAN"      -> Quiet(x)
    [] fpclassify(x) = "FP_INFINITE" -> LD(dn, MaxExp, 2)
    [] OTHER                         -> LD(x.s, 0, 0)

\* x + t for t a zero or a NaN.  Of two NaN operands the unit returns one,
\* chosen by dn.
FAddZero(x, t, dn) ==
  CASE IsNaN(x) /\ IsNaN(t) -> IF dn = 0 THEN Quiet(x) ELSE Quiet(t)
    [] IsNaN(x) -> Quiet(x)
    [] IsNaN(t) -> Quiet(t)
    [] fpclassify(x) = "FP_ZERO" -> LD(IF x.s = 1 /\ t.s = 1 THEN 1 ELSE 0, 0, 0)
    [] OTHER -> x

\* re + im * I, I being the complex constant (0, 1): the product is
\* (im * 0.0, im * 1.0) and the real re is added to its real part.
ComplexOf(re, im, dn) == [re |-> FAddZero(re, FMulZero(im, dn), dn), im |-> im]

Box(c) == <<c.re, c.im>>

\* ldouble_complex_cmp_val reads both boxes with ldouble_custom_val.
ldouble_complex_cmp(w1, w2) ==
  LET u1 == ToComplex(ldouble_custom_val(w1))
      u2 == ToComplex(ldouble_custom_val(w2))
      cmp_real == ldouble_cmp(creall(u1), creall(u2))
      cmp_imag == ldouble_cmp(cimagl(u1), cimagl(u2))
  IN  IF cmp_real.res = 0
      THEN [res |-> cmp_imag.res, unordered |-> cmp_real.unordered \/ cmp_imag.unordered]
      ELSE cmp_real

HashSeed == <<>>

ldouble_complex_mix_hash(v, pad1, pad2) ==
  LET c == ldouble_complex_custom_val(v)
  IN  ldouble_mix_hash(ldouble_mix_hash(HashSeed, creall(c), pad1), cimagl(c), pad2)

\* ldouble_complex_serialize: p is a long double *, so *p is the first long
\* double of the block.
ldouble_complex_serialize(v) ==
  LET p  == v[1]
      re == creall(ToComplex(p))
      r1 == ldouble_serialize_data(re)
      im == cimagl(ToComplex(p))
      r2 == ldouble_serialize_data(im)
  IN  [wire     |-> <<caml_serialize_int_1(mant_dig)>> \o r1.out \o r2.out,
       wsize_32 |-> 1 + (r1.size + r2.size),
       wsize_64 |-> 1 + (r1.size + r2.size)]

ldouble_complex_deserialize(s, d, pad, dn) ==
  IF s[1].d[1] # mant_dig
  THEN [err |-> TRUE, d |-> d, ret |-> 0, read |-> s[1].n]
  ELSE LET r1 == ldouble_deserialize_data(Tail(s), pad)
           r2 == ldouble_deserialize_data(r1.rest, pad)
       IN  [err  |-> FALSE,
            d    |-> Box(ComplexOf(r1.q, r2.q, dn)),
            ret  |-> 1 + (r1.size + r2.size),
            read |-> s[1].n + r1.read + r2.read]

(***************************************************************************)
(* The state machine                                                       *)
(***************************************************************************)
Init ==
  /\ \E p \in Platforms : mant_dig = p.md /\ big_endian = p.be
  /\ pc = "load"
  /\ nan_ = PosZero
  /\ registered = FALSE
  /\ caml_compare_unordered = 0
  /\ v1 = <<>> /\ v2 = <<>>
  /\ c1 = <<>> /\ c2 = <<>>
  /\ cmp_out = <<>>
  /\ hash_out = <<<<>>, <<>>>>
  /\ wire = <<>>
  /\ ser_out = <<>>
  /\ des_out = <<>>
  /\ dst = <<>>

\* The stubs are reached through the OCaml module, whose initialisation calls
\* ldouble_init once, before any other primitive.
ModuleLoading == pc = "load"
ModuleInitialized == pc = "ready"

HasBox(v) == v # <<>>

platform == <<mant_dig, big_endian>>
statics  == <<pc, nan_, registered>>
outputs  == <<cmp_out, hash_out, wire, ser_out, des_out, dst>>

\* The outputs are those of hooks run on the current boxes.
ResetOutputs ==
  /\ cmp_out' = <<>>
  /\ hash_out' = <<<<>>, <<>>>>
  /\ wire' = <<>>
  /\ ser_out' = <<>>
  /\ des_out' = <<>>
  /\ dst' = <<>>

\* ldouble_init without the assignment of nan_.
ldouble_init_without_nan ==
  /\ ModuleLoading
  /\ registered' = TRUE
  /\ pc' = "ready"
  /\ UNCHANGED <<platform, nan_, caml_compare_unordered, v1, v2, c1, c2, outputs>>

ldouble_init ==
  /\ ModuleLoading
  /\ nan_' = nanl
  /\ registered' = TRUE
  /\ pc' = "ready"
  /\ UNCHANGED <<platform, caml_compare_unordered, v1, v2, c1, c2, outputs>>

\* caml_alloc_custom of a new ldouble box holding u.
ctypes_copy_ldouble(u) ==
  /\ v1' = <<u>>
  /\ ResetOutputs
  /\ UNCHANGED <<platform, statics, caml_compare_unordered, v2, c1, c2>>

\* A long double coming from C through ctypes.
ldouble_from_c ==
  /\ ModuleInitialized
  /\ \E u \in LDVals : ctypes_copy_ldouble(u)

\* The program keeps the newest box as the second operand of the hooks.
keep_ldouble ==
  /\ ModuleInitialized
  /\ HasBox(v1)
  /\ v2' = v1
  /\ ResetOutputs
  /\ UNCHANGED <<platform, statics, caml_compare_unordered, v1, c1, c2>>

\* -x flips the sign bit (of both doubles of a pair of doubles).
FNeg(x) ==
  [x EXCEPT !.s = 1 - x.s, !.lo = IF mant_dig = 106 THEN 1 - x.lo ELSE x.lo]

ctypes_ldouble_neg ==
  /\ ModuleInitialized
  /\ HasBox(v1)
  /\ ctypes_copy_ldouble(FNeg(ldouble_custom_val(v1)))

fabsl(x) == IF x.s = 1 THEN FNeg(x) ELSE x

ctypes_ldouble_fabsl ==
  /\ ModuleInitialized
  /\ HasBox(v1)
  /\ ctypes_copy_ldouble(fabsl(ldouble_custom_val(v1)))

copysignl(x, y) == IF x.s # y.s THEN FNeg(x) ELSE x

ctypes_ldouble_copysignl ==
  /\ ModuleInitialized
  /\ HasBox(v1) /\ HasBox(v2)
  /\ ctypes_copy_ldouble(copysignl(ldouble_custom_val(v1), ldouble_custom_val(v2)))

ctypes_ldouble_min == ModuleInitialized /\ ctypes_copy_ldouble(FNeg(LdblMax))
ctypes_ldouble_max == ModuleInitialized /\ ctypes_copy_ldouble(LdblMax)
ctypes_ldouble_nan == ModuleInitialized /\ ctypes_copy_ldouble(nan_)
\* log(0) is minus infinity.
ctypes_ldouble_inf  == ModuleInitialized /\ ctypes_copy_ldouble(FNeg(NegInf))
ctypes_ldouble_ninf == ModuleInitialized /\ ctypes_copy_ldouble(NegInf)

\* The compare hook, called by the runtime's compare, which clears
\* caml_compare_unordered before it calls the hook.
ldouble_cmp_val ==
  /\ ModuleInitialized
  /\ HasBox(v1) /\ HasBox(v2)
  /\ LET r == ldouble_cmp(ldouble_custom_val(v1), ldouble_custom_val(v2))
     IN  /\ cmp_out' = <<r.res>>
         /\ caml_compare_unordered' = IF r.unordered THEN 1 ELSE 0
  /\ UNCHANGED <<platform, statics, v1, v2, c1, c2,
                 hash_out, wire, ser_out, des_out, dst>>

\* What the padding bytes of a long double can hold.
Pads == IF mant_dig = 64 THEN {0, 1} ELSE {0}

\* The hash hook on box i.
ldouble_hash ==
  /\ ModuleInitialized
  /\ \E i \in {1, 2}, pad \in Pads :
       LET v == IF i = 1 THEN v1 ELSE v2
       IN  /\ HasBox(v)
           /\ hash_out' =
                [hash_out EXCEPT ![i] = <<ldouble_mix_hash(HashSeed, ldouble_custom_val(v), pad)>>]
  /\ UNCHANGED <<platform, statics, caml_compare_unordered,
                 v1, v2, c1, c2, cmp_out, wire, ser_out, des_out, dst>>

\* The serialize hook on v1.
ldouble_serialize_hook ==
  /\ ModuleInitialized
  /\ HasBox(v1)
  /\ LET r == ldouble_serialize(v1)
     IN  /\ wire' = r.wire
         /\ ser_out' = <<[ops |-> "ctypes:ldouble",
                          wsize_32 |-> r.wsize_32, wsize_64 |-> r.wsize_64]>>
  /\ des_out' = <<>>
  /\ dst' = <<>>
  /\ UNCHANGED <<platform, statics, caml_compare_unordered,
                 v1, v2, c1, c2, cmp_out, hash_out>>

\* The tag bytes of the other platforms.
ForeignTags == {p.md % 256 : p \in Platforms} \ {mant_dig % 256}

Retag(w, t) == [w EXCEPT ![1] = [n |-> 1, d |-> <<t>>]]

\* The bytes handed to a deserialize hook: those the serialize hook wrote, or
\* the same with the tag of another platform.
Inputs == {wire} \cup {Retag(wire, t) : t \in ForeignTags}

\* The deserialize hook, which the runtime finds by the identifier of the
\* registered operations and gives a fresh block.
ldouble_deserialize_hook ==
  /\ ModuleInitialized
  /\ registered
  /\ ser_out # <<>> /\ ser_out[1].ops = "ctypes:ldouble"
  /\ \E s \in Inputs, pad \in Pads :
       LET r == ldouble_deserialize(s, <<>>, pad)
       IN  /\ des_out' = <<[err |-> r.err, ret |-> r.ret, read |-> r.read,
                            tag |-> s[1].d[1]]>>
           /\ dst' = r.d
  /\ UNCHANGED <<platform, statics, caml_compare_unordered,
                 v1, v2, c1, c2, cmp_out, hash_out, wire, ser_out>>

(***************************************************************************)
(* The complex boxes.  Their parts are drawn from a few long doubles: both *)
(* zeros, a normal number with an odd fraction, infinity, and a negative   *)
(* signalling NaN.                                                         *)
(***************************************************************************)
CVals == {PosZero, NegZero, LD(0, 1, 1), PosInf, LD(1, MaxExp, 1)}

DefaultNaNSigns == {0, 1}

ctypes_copy_ldouble_complex(u) ==
  /\ c1' = Box(u)
  /\ ResetOutputs
  /\ UNCHANGED <<platform, statics, caml_compare_unordered, v1, v2, c2>>

\* A long double complex coming from C through ctypes.
ldouble_complex_from_c ==
  /\ ModuleInitialized
  /\ \E re \in CVals, im \in CVals :
       ctypes_copy_ldouble_complex([re |-> re, im |-> im])

\* What make can build from two ldouble boxes holding such parts.
MakeResults ==
  {ComplexOf(re, im, dn) : re \in CVals, im \in CVals, dn \in DefaultNaNSigns}

ctypes_ldouble_complex_make ==
  /\ ModuleInitialized
  /\ \E u \in MakeResults : ctypes_copy_ldouble_complex(u)

keep_ldouble_complex ==
  /\ ModuleInitialized
  /\ HasBox(c1)
  /\ c2' = c1
  /\ ResetOutputs
  /\ UNCHANGED <<platform, statics, caml_compare_unordered, v1, v2, c1>>

ldouble_complex_cmp_val ==
  /\ ModuleInitialized
  /\ HasBox(c1) /\ HasBox(c2)
  /\ LET r == ldouble_complex_cmp(c1, c2)
     IN  /\ cmp_out' = <<r.res>>
         /\ caml_compare_unordered' = IF r.unordered THEN 1 ELSE 0
  /\ UNCHANGED <<platform, statics, v1, v2, c1, c2,
                 hash_out, wire, ser_out, des_out, dst>>

ldouble_complex_hash ==
  /\ ModuleInitialized
  /\ \E i \in {1, 2}, pad1 \in Pads, pad2 \in Pads :
       LET v == IF i = 1 THEN c1 ELSE c2
       IN  /\ HasBox(v)
           /\ hash_out' = [hash_out EXCEPT ![i] = <<ldouble_complex_mix_hash(v, pad1, pad2)>>]
  /\ UNCHANGED <<platform, statics, caml_compare_unordered,
                 v1, v2, c1, c2, cmp_out, wire, ser_out, des_out, dst>>

ldouble_complex_serialize_hook ==
  /\ ModuleInitialized
  /\ HasBox(c1)
  /\ LET r == ldouble_complex_serialize(c1)
     IN  /\ wire' = r.wire
         /\ ser_out' = <<[ops |-> "ctypes:ldouble_complex",
                          wsize_32 |-> r.wsize_32, wsize_64 |-> r.wsize_64]>>
  /\ des_out' = <<>>
  /\ dst' = <<>>
  /\ UNCHANGED <<platform, statics, caml_compare_unordered,
                 v1, v2, c1, c2, cmp_out, hash_out>>

ldouble_complex_deserialize_hook ==
  /\ ModuleInitialized
  /\ registered
  /\ ser_out # <<>> /\ ser_out[1].ops = "ctypes:ldouble_complex"
  /\ \E s \in Inputs, pad \in Pads, dn \in DefaultNaNSigns :
       LET r == ldouble_complex_deserialize(s, <<>>, pad, dn)
       IN  /\ des_out' = <<[err |-> r.err, ret |-> r.ret, read |-> r.read,
                            tag |-> s[1].d[1]]>>
           /\ dst' = r.d
  /\ UNCHANGED <<platform, statics, caml_compare_unordered,
                 v1, v2, c1, c2, cmp_out, hash_out, wire, ser_out>>

(***************************************************************************)
(* Specifications: the ordering and hash hooks of the ldouble boxes, the   *)
(* codec hooks of both kinds of box, and the ordering and hash hooks of    *)
(* the complex boxes.                                                      *)
(***************************************************************************)
Next ==
  \/ ldouble_init
  \/ ldouble_from_c
  \/ keep_ldouble
  \/ ctypes_ldouble_neg
  \/ ctypes_ldouble_fabsl
  \/ ctypes_ldouble_copysignl
  \/ ctypes_ldouble_min
  \/ ctypes_ldouble_max
  \/ ctypes_ldouble_nan
  \/ ctypes_ldouble_inf
  \/ ctypes_ldouble_ninf
  \/ ldouble_cmp_val
  \/ ldouble_hash

Spec == Init /\ [][Next]_vars

NextCodec ==
  \/ ldouble_init
  \/ ldouble_from_c
  \/ ctypes_ldouble_nan
  \/ ldouble_complex_from_c
  \/ ldouble_serialize_hook
  \/ ldouble_deserialize_hook
  \/ ldouble_complex_serialize_hook
  \/ ldouble_complex_deserialize_hook

SpecCodec == Init /\ [][NextCodec]_vars

NextComplex ==
  \/ ldouble_init
  \/ ldouble_complex_from_c
  \/ ctypes_ldouble_complex_make
  \/ keep_ldouble_complex
  \/ ldouble_complex_cmp_val
  \/ ldouble_complex_hash

SpecComplex == Init /\ [][NextComplex]_vars

(***************************************************************************)
(* The claims                                                              *)
(***************************************************************************)
Hashed == hash_out[1] # <<>> /\ hash_out[2] # <<>>

DesOk(ops)  == des_out # <<>> /\ ~des_out[1].err /\ ser_out[1].ops = ops

\* C1: two ldouble boxes that the compare hook finds EQUAL have the same hash,
\* on every platform.
C1_EqualHashEqual ==
  (HasBox(v1) /\ HasBox(v2) /\ cmp_out = <<0>> /\ Hashed) =>
    hash_out[1] = hash_out[2]

\* C1 away from the pair-of-doubles platform.
C1_EqualHashEqual_Not106 ==
  (mant_dig # 106 /\ cmp_out = <<0>> /\ Hashed) => hash_out[1] = hash_out[2]

C3_FormatMismatch ==
  (des_out # <<>> /\ des_out[1].tag # mant_dig) =>
    /\ des_out[1].err
    /\ des_out[1].read = 1
    /\ dst = <<>>

C3_Witness ==
  /\ des_out # <<>>
  /\ des_out[1].tag # mant_dig
  /\ des_out[1].err
  /\ ser_out[1].ops = "ctypes:ldouble_complex"

\* C4: the complex compare hook is lexicographic: the compare of the real
\* parts when that is not EQUAL, else the compare of the imaginary parts.
C4_Lexicographic ==
  cmp_out # <<>> =>
    LET z == ldouble_complex_custom_val(c1)
        w == ldouble_complex_custom_val(c2)
        r == ldouble_cmp(creall(z), creall(w)).res
    IN  cmp_out[1] = IF r # 0 THEN r ELSE ldouble_cmp(cimagl(z), cimagl(w)).res

\* C5, as amended: compare(NaN, NaN) is EQUAL with the unordered flag raised,
\* compare(NaN, 1.0) is LESS and compare(1.0, NaN) is GREATER.
C5_NaNOrder ==
  cmp_out # <<>> =>
    LET a == ldouble_custom_val(v1)
        b == ldouble_custom_val(v2)
    IN  /\ (IsNaN(a) /\ IsNaN(b)) => (cmp_out[1] = 0 /\ caml_compare_unordered = 1)
        /\ (IsNaN(a) /\ b = One) => cmp_out[1] = -1
        /\ (a = One /\ IsNaN(b)) => cmp_out[1] = 1

C5_Witness ==
  /\ cmp_out # <<>>
  /\ IsNaN(ldouble_custom_val(v1))
  /\ ldouble_custom_val(v2) = One
  /\ caml_compare_unordered = 1

\* C5 as stated: compare(NaN, 1.0) is GREATER and compare(1.0, NaN) is LESS.
C5_NaNOrder_AsStated ==
  cmp_out # <<>> =>
    LET a == ldouble_custom_val(v1)
        b == ldouble_custom_val(v2)
    IN  /\ (IsNaN(a) /\ IsNaN(b)) => (cmp_out[1] = 0 /\ caml_compare_unordered = 1)
        /\ (IsNaN(a) /\ b = One) => cmp_out[1] = 1
        /\ (a = One /\ IsNaN(b)) => cmp_out[1] = -1

\* C6: the compare hook is a total order on all long doubles: reflexive,
\* antisymmetric, transitive, with the NaNs one EQUAL class below every other
\* value.
C6_TotalOrder ==
  cmp_out # <<>> =>
    LET a == ldouble_custom_val(v1)
        b == ldouble_custom_val(v2)
    IN  /\ ldouble_cmp(a, a).res = 0
        /\ cmp_out[1] = 0 - ldouble_cmp(b, a).res
        /\ \A c \in LDVals :
             (cmp_out[1] <= 0 /\ ldouble_cmp(b, c).res <= 0) => ldouble_cmp(a, c).res <= 0
        /\ (IsNaN(a) /\ IsNaN(b)) => cmp_out[1] = 0
        /\ (~IsNaN(a) /\ IsNaN(b)) => cmp_out[1] = 1

C6_Witness ==
  /\ cmp_out = <<1>>
  /\ ~IsNaN(ldouble_custom_val(v1))
  /\ IsNaN(ldouble_custom_val(v2))

\* C7: two complex boxes that the complex compare hook finds EQUAL have the
\* same complex hash.
C7_ComplexEqualHashEqual ==
  (HasBox(c1) /\ HasBox(c2) /\ cmp_out = <<0>> /\ Hashed) =>
    hash_out[1] = hash_out[2]

\* C8: deserializing what the complex serialize hook wrote for c1 gives the
\* normalized real and imaginary parts of c1, bit for bit.
C8_ComplexRoundTrip ==
  DesOk("ctypes:ldouble_complex") =>
    LET z == ldouble_complex_custom_val(c1)
    IN  dst = <<norm(creall(z)), norm(cimagl(z))>>

\* The value bytes of one long double on the wire, by platform.
WireValueBytes ==
  CASE mant_dig = 53  -> 8
    [] mant_dig = 64  -> 10
    [] mant_dig = 106 -> 16
    [] mant_dig = 113 -> 16
    [] OTHER          -> SizeofDouble

\* C9: serialize declares one size for both size classes, that size is the tag
\* byte plus the value bytes written (once for a scalar, twice for a complex),
\* and deserialize of those bytes returns that size.
C9_Sizes ==
  ser_out # <<>> =>
    LET k == IF ser_out[1].ops = "ctypes:ldouble" THEN 1 ELSE 2
    IN  /\ ser_out[1].wsize_32 = ser_out[1].wsize_64
        /\ ser_out[1].wsize_32 = Bytes(wire)
        /\ Bytes(wire) = 1 + k * WireValueBytes
        /\ (des_out # <<>> /\ ~des_out[1].err) =>
             (des_out[1].ret = ser_out[1].wsize_32 /\ des_out[1].read = Bytes(wire))

C9_Witness ==
  /\ DesOk("ctypes:ldouble_complex")
  /\ mant_dig = 64
  /\ des_out[1].ret = 21

====
